---------------------------- MODULE Spec2Model ----------------------------
(***************************************************************************)
(* One signing session of crates/sui-core/src/signature_mpc/sign.rs: the   *)
(* session accumulator SignState, the single-use round actor SignRound and *)
(* the operations on them.  The cryptographic provider (twopc_mpc) is not  *)
(* part of sign.rs; its three entry points are modelled from the written   *)
(* specification and are marked as such below.                             *)
(***************************************************************************)
EXTENDS Integers, Sequences, FiniteSets

(* ------------------------------ bounds -------------------------------- *)
\* PartyIDs range over 1..MaxParty.
MaxParty == 2
\* A batch holds at most MaxMsgs messages (presignatures, artifacts).
MaxMsgs == 2
\* At most MaxRounds successful SignRound::new calls in one session.
MaxRounds == 1

PartyIDs == 1..MaxParty

\* HashSet<PartyID> arguments of SignState::new: the empty set, the sets
\* 1..n and the sets 2..n.
PartySets == {lo..hi : lo \in 1..2, hi \in 0..MaxParty}

\* SignatureMPCSessionID: a byte string of which only bytes 0..8 are read.
SessionIDs == { <<0, 0, 0, 0, 0, 0, 0, 1, 7>>,
                <<0, 0, 0, 0, 0, 0, 1, 0, 7>>,
                <<255, 255, 255, 255, 255, 255, 255, 255, 7>> }

\* Option<T>: None is <<>>, Some(v) is <<v>>.
None == <<>>
Some(v) == <<v>>
IsSome(o) == Len(o) = 1
Unwrap(o) == o[1]

Min(a, b) == IF a <= b THEN a ELSE b

\* messages: Vec<Vec<u8>>; message j is the one-byte vector <<j>>.
MessageBatches == {[j \in 1..n |-> <<j>>] : n \in 0..MaxMsgs}
\* Vec<PublicNonceEncryptedPartialSignatureAndProof>, opaque items.
ArtifactBatches == {[j \in 1..n |-> [artifact |-> j]] : n \in 0..MaxMsgs}
\* Vec<DecentralizedPartyPresign>, opaque items.
PresignBatches == {[j \in 1..n |-> [presign |-> j]] : n \in 0..MaxMsgs}
\* The batch lengths SignRound::new is called with.
NewLens == {MaxMsgs - 1, MaxMsgs}

VARIABLES
    constructed,              \* "ok", or "panic" when SignState::new panicked
    party_id,                 \* SignState.party_id
    parties,                  \* SignState.parties
    aggregator_party_id,      \* SignState.aggregator_party_id
    messages,                 \* SignState.messages (Option)
    public_nonce_encrypted_partial_signature_and_proofs,  \* (Option)
    decryption_shares,        \* SignState.decryption_shares (map)
    decryption_shares_proofs, \* SignState.decryption_shares_proofs (map)
    round,                    \* the session's SignRound
    rounds_started,           \* successful SignRound::new calls so far
    combinations,             \* combination calls made for the current round
    outputs,                  \* Output results returned by the current round
    ret,                      \* the last call and what it returned
    keystore,                 \* SuiClientConfig.keystore
    envs,                     \* SuiClientConfig.envs
    active_env,               \* SuiClientConfig.active_env (Option)
    active_address            \* SuiClientConfig.active_address (Option)

vars == <<constructed, party_id, parties, aggregator_party_id, messages,
          public_nonce_encrypted_partial_signature_and_proofs,
          decryption_shares, decryption_shares_proofs, round,
          rounds_started, combinations, outputs, ret,
          keystore, envs, active_env, active_address>>

stateVars == <<constructed, party_id, parties, aggregator_party_id, messages,
               public_nonce_encrypted_partial_signature_and_proofs,
               decryption_shares, decryption_shares_proofs>>

\* The fields of the SuiClientConfig of sui_client_config.rs.
configVars == <<keystore, envs, active_env, active_address>>

(* ------------------------- provider (twopc_mpc) ------------------------ *)
\* message_digest(m, &hash): an opaque digest of the message.
message_digest(m) == [digest_of |-> m]

\* The share and the proof an honest party p computes for message digest d
\* and artifact a; `genuine` is the verdict proof verification will reach.
Share(p, d, a) == [by |-> p, m |-> d, a |-> a, genuine |-> TRUE]
Proof(p, d, a) == [by |-> p, m |-> d, a |-> a, genuine |-> TRUE]
Forged(x) == [x EXCEPT !.genuine = FALSE]

\* initiate_decentralized_party_sign: one (decryption party, proof party)
\* pair per presignature, or an error; it never sees the messages.
initiate_decentralized_party_sign(pid, ps, presigns, artifacts) ==
    {[result |-> "Err", value |-> <<>>]} \cup
    IF Len(presigns) = Len(artifacts)
    THEN {[result |-> "Ok",
           value |-> [i \in 1..Len(presigns) |->
                        [party |-> pid, parties |-> ps,
                         presign |-> presigns[i]]]]}
    ELSE {}

\* decrypt_signature_decentralized_party_sign: fails when any collected
\* share or proof is not genuine; succeeds with one signature per message
\* when every party of the session contributed one genuine share and proof
\* per message; may do either otherwise.
AllGenuine(shares, proofs) ==
    /\ \A p \in DOMAIN shares : \A i \in 1..Len(shares[p]) : shares[p][i].genuine
    /\ \A p \in DOMAIN proofs : \A i \in 1..Len(proofs[p]) : proofs[p][i].genuine

Complete(ms, shares, proofs, actors) ==
    /\ Len(actors) = Len(ms)
    /\ \A i \in 1..Len(actors) :
          /\ DOMAIN shares = actors[i].parties
          /\ DOMAIN proofs = actors[i].parties
    /\ \A p \in DOMAIN shares : Len(shares[p]) = Len(ms)
    /\ \A p \in DOMAIN proofs : Len(proofs[p]) = Len(ms)

Signatures(ms) == [i \in 1..Len(ms) |-> [signature_of |-> ms[i]]]

decrypt_signature_decentralized_party_sign(ms, shares, proofs, artifacts, actors) ==
    IF ~AllGenuine(shares, proofs)
    THEN {[result |-> "Err", value |-> <<>>]}
    ELSE IF Complete(ms, shares, proofs, actors) /\ Len(artifacts) = Len(ms)
         THEN {[result |-> "Output", value |-> Signatures(ms)]}
         ELSE {[result |-> "Err", value |-> <<>>],
               [result |-> "Output", value |-> Signatures(ms)]}

(* ------------------------------ SignState ------------------------------ *)
\* u64::from_be_bytes(b) % n, reduced byte by byte so that no intermediate
\* value leaves the checker's integer range (the result is the same).
RECURSIVE from_be_bytes_mod(_, _)
from_be_bytes_mod(b, n) ==
    IF Len(b) = 0 THEN 0
    ELSE (from_be_bytes_mod(SubSeq(b, 1, Len(b) - 1), n) * 256 + b[Len(b)]) % n

\* Line 144.  `as PartyID` changes nothing: the value is at most the size of
\* a set of PartyIDs.
AggregatorPartyId(session_id, ps) ==
    from_be_bytes_mod(SubSeq(session_id, 1, 8), Cardinality(ps)) + 1

\* SignState::new; the remainder by parties.len() = 0 panics.
SignStateNew(pid, ps, session_id) ==
    IF Cardinality(ps) = 0
    THEN [constructed |-> "panic", aggregator_party_id |-> 0]
    ELSE [constructed |-> "ok",
          aggregator_party_id |-> AggregatorPartyId(session_id, ps)]

\* The payload party p broadcasts for the full batch, and tampered versions.
HonestShares(p) ==
    [i \in 1..MaxMsgs |-> Share(p, message_digest(<<i>>), [artifact |-> i])]
HonestProofs(p) ==
    [i \in 1..MaxMsgs |-> Proof(p, message_digest(<<i>>), [artifact |-> i])]
Payloads(p) ==
    { <<HonestShares(p), HonestProofs(p)>>,
      <<HonestShares(p), [HonestProofs(p) EXCEPT ![1] = Forged(@)]>> }

\* SuiClientConfig::new(keystore)
SuiClientConfigNew(ks) ==
    /\ keystore = ks
    /\ envs = <<>>
    /\ active_env = None
    /\ active_address = None

Init ==
    /\ SuiClientConfigNew("keystore")
    /\ \E pid \in PartyIDs, ps \in PartySets, sid \in SessionIDs :
        LET s == SignStateNew(pid, ps, sid) IN
        /\ constructed = s.constructed
        /\ party_id = pid
        /\ parties = ps
        /\ aggregator_party_id = s.aggregator_party_id
        /\ messages = None
        /\ public_nonce_encrypted_partial_signature_and_proofs = None
        /\ decryption_shares = <<>>
        /\ decryption_shares_proofs = <<>>
        /\ round = [tag |-> "None"]
        /\ rounds_started = 0
        /\ combinations = 0
        /\ outputs = 0
        /\ ret = [op |-> "SignState::new", result |-> s.constructed,
                  value |-> <<>>, args |-> sid]

\* SignState::set
SetFieldsClearing(ms, artifacts) ==
    /\ messages' = Some(ms)
    /\ public_nonce_encrypted_partial_signature_and_proofs' = Some(artifacts)
    /\ decryption_shares' = <<>>
    /\ decryption_shares_proofs' = <<>>
    /\ UNCHANGED <<constructed, party_id, parties, aggregator_party_id>>

SetFieldsKeepFirst(ms, artifacts) ==
    /\ messages' = IF IsSome(messages) THEN messages ELSE Some(ms)
    /\ public_nonce_encrypted_partial_signature_and_proofs' =
          IF IsSome(public_nonce_encrypted_partial_signature_and_proofs)
          THEN public_nonce_encrypted_partial_signature_and_proofs
          ELSE Some(artifacts)
    /\ UNCHANGED <<constructed, party_id, parties, aggregator_party_id,
                   decryption_shares, decryption_shares_proofs>>

SetFields(ms, artifacts) ==
    /\ messages' = Some(ms)
    /\ public_nonce_encrypted_partial_signature_and_proofs' = Some(artifacts)
    /\ UNCHANGED <<constructed, party_id, parties, aggregator_party_id,
                   decryption_shares, decryption_shares_proofs>>

Set ==
    /\ constructed = "ok"
    /\ \E ms \in MessageBatches, artifacts \in ArtifactBatches :
          /\ Len(ms) = Len(artifacts)
          /\ SetFields(ms, artifacts)
          /\ ret' = [op |-> "set", result |-> "unit", value |-> <<>>,
                     args |-> <<ms, artifacts>>]
    /\ UNCHANGED <<round, rounds_started, combinations, outputs, configVars>>

\* HashMap::insert
MapInsertLatestOnly(map, k, v) == [x \in {k} |-> v]

MapInsert(map, k, v) == [x \in DOMAIN map \cup {k} |-> IF x = k THEN v ELSE map[x]]

\* SignState::insert_first_round
insert_first_round_shares_only(p, message) ==
    /\ decryption_shares' = MapInsert(decryption_shares, p, message[1])
    /\ decryption_shares_proofs' = decryption_shares_proofs

insert_first_round_keep_existing(p, message) ==
    /\ decryption_shares' =
          IF p \in DOMAIN decryption_shares THEN decryption_shares
          ELSE MapInsert(decryption_shares, p, message[1])
    /\ decryption_shares_proofs' =
          IF p \in DOMAIN decryption_shares_proofs THEN decryption_shares_proofs
          ELSE MapInsert(decryption_shares_proofs, p, message[2])

insert_first_round(p, message) ==
    /\ decryption_shares' = MapInsert(decryption_shares, p, message[1])
    /\ decryption_shares_proofs' = MapInsert(decryption_shares_proofs, p, message[2])

InsertFirstRound ==
    /\ constructed = "ok"
    /\ \E p \in PartyIDs : \E message \in Payloads(p) :
          /\ insert_first_round(p, message)
          /\ ret' = [op |-> "insert_first_round", result |-> "Ok", value |-> <<>>,
                     args |-> <<p, message>>]
    /\ UNCHANGED <<constructed, party_id, parties, aggregator_party_id, messages,
                   public_nonce_encrypted_partial_signature_and_proofs,
                   round, rounds_started, combinations, outputs, configVars>>

\* SignState::ready_for_complete_first_round
ReadyNoAggregator(r) ==
    /\ r.tag = "FirstRound"
    /\ Cardinality(DOMAIN decryption_shares) = Cardinality(parties)
    /\ Cardinality(DOMAIN decryption_shares_proofs) = Cardinality(parties)

ReadyAtMost(r) ==
    /\ r.tag = "FirstRound"
    /\ Cardinality(DOMAIN decryption_shares) <= Cardinality(parties)
    /\ Cardinality(DOMAIN decryption_shares_proofs) <= Cardinality(parties)
    /\ party_id = aggregator_party_id

ready_for_complete_first_round(r) ==
    /\ r.tag = "FirstRound"
    /\ Cardinality(DOMAIN decryption_shares) = Cardinality(parties)
    /\ Cardinality(DOMAIN decryption_shares_proofs) = Cardinality(parties)
    /\ party_id = aggregator_party_id

ReadyForCompleteFirstRound ==
    /\ constructed = "ok"
    /\ ret' = [op |-> "ready_for_complete_first_round", result |-> "bool",
               value |-> ready_for_complete_first_round(round), args |-> <<>>]
    /\ UNCHANGED <<stateVars, round, rounds_started, combinations, outputs,
                   configVars>>

(* ------------------------------ SignRound ------------------------------ *)
NoRound == [tag |-> "None"]

FirstRound(dec, prf) ==
    [tag |-> "FirstRound",
     signature_threshold_decryption_round_parties |-> dec,
     signature_partial_decryption_proof_verification_round_parties |-> prf]

\* Lines 51..85 of SignRound::new, given the provider's actors: the zip of
\* messages, actors and artifacts stops at the shortest of the three; each
\* element is computed from the message, actor and artifact at its position.
ZipAndCompute(pid, ms, actors, artifacts) ==
    LET k == Min(Len(ms), Min(Len(actors), Len(artifacts)))
        d(i) == message_digest(ms[i])
    IN [result |-> "Ok",
        round |-> FirstRound([i \in 1..k |-> [actors[i] EXCEPT !.presign = <<@, d(i)>>]],
                             [i \in 1..k |-> [actors[i] EXCEPT !.presign = <<@, d(i)>>]]),
        value |-> <<[i \in 1..k |-> Share(pid, d(i), artifacts[i])],
                    [i \in 1..k |-> Proof(pid, d(i), artifacts[i])]>>]

NewErr == [result |-> "Err", round |-> NoRound, value |-> <<>>]

\* SignRound::new: every result the call can have.  A provider error (line
\* 49) or a failed per-message computation (line 73) fails the whole call.
sign_round_new_partial(pid, ps, ms, artifacts, presigns) ==
    UNION { IF init.result = "Err"
            THEN {NewErr}
            ELSE LET ok == ZipAndCompute(pid, ms, init.value, artifacts)
                 IN IF Len(ok.value[1]) = 0 THEN {ok}
                    ELSE {ok, [ok EXCEPT !.result = "Err"]}
            : init \in initiate_decentralized_party_sign(pid, ps, presigns, artifacts) }

sign_round_new(pid, ps, ms, artifacts, presigns) ==
    UNION { IF init.result = "Err"
            THEN {NewErr}
            ELSE LET ok == ZipAndCompute(pid, ms, init.value, artifacts)
                 IN IF Len(ok.value[1]) = 0 THEN {ok} ELSE {ok, NewErr}
            : init \in initiate_decentralized_party_sign(pid, ps, presigns, artifacts) }

SignRoundNew ==
    /\ constructed = "ok"
    /\ rounds_started < MaxRounds
    /\ \E ms \in MessageBatches, artifacts \in ArtifactBatches,
          presigns \in PresignBatches :
          /\ {Len(ms), Len(artifacts), Len(presigns)} \subseteq NewLens
          /\ \E r \in sign_round_new(party_id, parties, ms, artifacts, presigns) :
             /\ ret' = [op |-> "SignRound::new", result |-> r.result,
                        value |-> r.value,
                        args |-> <<Len(ms), Len(presigns), Len(artifacts)>>]
             /\ IF r.result = "Ok"
                THEN /\ round' = r.round
                     /\ rounds_started' = rounds_started + 1
                     /\ combinations' = 0
                     /\ outputs' = 0
                ELSE UNCHANGED <<round, rounds_started, combinations, outputs>>
    /\ UNCHANGED <<stateVars, configVars>>

\* SignRound::complete_round: every (result, round afterwards) the call can
\* have.  mem::take empties the round first (line 91); the unwraps of lines
\* 98 and 102 panic on None before the provider is called.
complete_round_keep_on_error(r) ==
    IF r.tag = "FirstRound"
    THEN IF ~IsSome(messages)
            \/ ~IsSome(public_nonce_encrypted_partial_signature_and_proofs)
         THEN {[result |-> "Panic", value |-> <<>>, round |-> NoRound, combined |-> 0]}
         ELSE {[result |-> c.result, value |-> c.value,
                round |-> IF c.result = "Err" THEN r ELSE NoRound, combined |-> 1] :
               c \in decrypt_signature_decentralized_party_sign(
                        Unwrap(messages), decryption_shares, decryption_shares_proofs,
                        Unwrap(public_nonce_encrypted_partial_signature_and_proofs),
                        r.signature_threshold_decryption_round_parties)}
    ELSE {[result |-> "None", value |-> <<>>, round |-> NoRound, combined |-> 0]}

complete_round_unwrap_first(r) ==
    IF ~IsSome(messages)
       \/ ~IsSome(public_nonce_encrypted_partial_signature_and_proofs)
    THEN {[result |-> "Panic", value |-> <<>>, round |-> NoRound, combined |-> 0]}
    ELSE IF r.tag = "FirstRound"
         THEN {[result |-> c.result, value |-> c.value, round |-> NoRound, combined |-> 1] :
               c \in decrypt_signature_decentralized_party_sign(
                        Unwrap(messages), decryption_shares, decryption_shares_proofs,
                        Unwrap(public_nonce_encrypted_partial_signature_and_proofs),
                        r.signature_threshold_decryption_round_parties)}
         ELSE {[result |-> "None", value |-> <<>>, round |-> NoRound, combined |-> 0]}

complete_round_no_take(r) ==
    IF r.tag = "FirstRound"
    THEN IF ~IsSome(messages)
            \/ ~IsSome(public_nonce_encrypted_partial_signature_and_proofs)
         THEN {[result |-> "Panic", value |-> <<>>, round |-> r, combined |-> 0]}
         ELSE {[result |-> c.result, value |-> c.value, round |-> r, combined |-> 1] :
               c \in decrypt_signature_decentralized_party_sign(
                        Unwrap(messages), decryption_shares, decryption_shares_proofs,
                        Unwrap(public_nonce_encrypted_partial_signature_and_proofs),
                        r.signature_threshold_decryption_round_parties)}
    ELSE {[result |-> "None", value |-> <<>>, round |-> r, combined |-> 0]}

complete_round(r) ==
    IF r.tag = "FirstRound"
    THEN IF ~IsSome(messages)
            \/ ~IsSome(public_nonce_encrypted_partial_signature_and_proofs)
         THEN {[result |-> "Panic", value |-> <<>>, round |-> NoRound, combined |-> 0]}
         ELSE {[result |-> c.result, value |-> c.value, round |-> NoRound, combined |-> 1] :
               c \in decrypt_signature_decentralized_party_sign(
                        Unwrap(messages), decryption_shares, decryption_shares_proofs,
                        Unwrap(public_nonce_encrypted_partial_signature_and_proofs),
                        r.signature_threshold_decryption_round_parties)}
    ELSE {[result |-> "None", value |-> <<>>, round |-> NoRound, combined |-> 0]}

CompleteRound ==
    /\ constructed = "ok"
    /\ \E c \in complete_round(round) :
          /\ round' = c.round
          /\ combinations' = combinations + c.combined
          /\ outputs' = outputs + (IF c.result = "Output" THEN 1 ELSE 0)
          /\ ret' = [op |-> "complete_round", result |-> c.result,
                     value |-> c.value, args |-> round.tag]
    /\ UNCHANGED <<stateVars, rounds_started, configVars>>

Next ==
    \/ Set
    \/ InsertFirstRound
    \/ ReadyForCompleteFirstRound
    \/ SignRoundNew
    \/ CompleteRound

Spec == Init /\ [][Next]_vars

(* ------------------- a caller that completes speculatively ------------- *)
\* The caller of spec section 7: it sets the full batch, starts the round
\* with that batch, and then calls complete_round after every inbound
\* contribution without asking ready_for_complete_first_round.  Every
\* contribution is the honest payload of a party of the session, sent once.
SpeculativeSet ==
    /\ ret.op = "SignState::new"
    /\ Set
    /\ Len(Unwrap(messages')) = MaxMsgs

SpeculativeSignRoundNew ==
    /\ ret.op = "set" \/ (ret.op = "SignRound::new" /\ ret.result = "Err")
    /\ SignRoundNew
    /\ ret'.args = <<MaxMsgs, MaxMsgs, MaxMsgs>>

SpeculativeInsertFirstRound ==
    /\ (ret.op = "SignRound::new" /\ ret.result = "Ok") \/ ret.op = "complete_round"
    /\ InsertFirstRound
    /\ ret'.args[1] \in parties \ DOMAIN decryption_shares
    /\ ret'.args[2] = <<HonestShares(ret'.args[1]), HonestProofs(ret'.args[1])>>

SpeculativeCompleteRound ==
    /\ ret.op = "insert_first_round"
    /\ CompleteRound

SpeculativeNext ==
    \/ SpeculativeSet
    \/ SpeculativeSignRoundNew
    \/ SpeculativeInsertFirstRound
    \/ SpeculativeCompleteRound

SpeculativeSpec == Init /\ [][SpeculativeNext]_vars

(* --------------------------- SuiClientConfig --------------------------- *)
\* At most MaxAliases different aliases are used.
MaxAliases == 3

Aliases == 1..MaxAliases

\* SuiEnv values: an alias, an rpc url and an optional websocket url.
SuiEnvs == [alias : Aliases, rpc : {"rpc_a", "rpc_b"}, ws : {None, Some("ws")}]

Keystores == {"file_keystore", "in_mem_keystore"}

\* SuiClientConfig::add_env
add_env_replace(env) ==
    envs' = IF \E i \in 1..Len(envs) : envs[i].alias = env.alias
            THEN [i \in 1..Len(envs) |->
                     IF envs[i].alias = env.alias THEN env ELSE envs[i]]
            ELSE Append(envs, env)

add_env(env) ==
    envs' = IF ~(\E i \in 1..Len(envs) : envs[i].alias = env.alias)
            THEN Append(envs, env)
            ELSE envs

AddEnv ==
    /\ \E env \in SuiEnvs :
          /\ add_env(env)
          /\ ret' = [op |-> "add_env", result |-> "unit", value |-> <<>>,
                     args |-> env]
    /\ UNCHANGED <<keystore, active_env, active_address>>
    /\ UNCHANGED <<stateVars, round, rounds_started, combinations, outputs>>

\* A program that only manages its client configuration: no signing
\* session exists.
ConfigInit ==
    /\ \E ks \in Keystores : SuiClientConfigNew(ks)
    /\ constructed = "absent"
    /\ party_id = 0
    /\ parties = {}
    /\ aggregator_party_id = 0
    /\ messages = None
    /\ public_nonce_encrypted_partial_signature_and_proofs = None
    /\ decryption_shares = <<>>
    /\ decryption_shares_proofs = <<>>
    /\ round = NoRound
    /\ rounds_started = 0
    /\ combinations = 0
    /\ outputs = 0
    /\ ret = [op |-> "SuiClientConfig::new", result |-> "ok", value |-> <<>>,
              args |-> <<>>]

ConfigNext == AddEnv

ConfigSpec == ConfigInit /\ [][ConfigNext]_vars

(* ------------------------------- claims -------------------------------- *)
\* The four conditions of readiness, read off the state.
InFirstRound == round.tag = "FirstRound"
AllSharesIn == Cardinality(DOMAIN decryption_shares) = Cardinality(parties)
AllProofsIn == Cardinality(DOMAIN decryption_shares_proofs) = Cardinality(parties)
IsAggregator == party_id = aggregator_party_id

\* C1: ready_for_complete_first_round returns true exactly when the round
\* is FirstRound, the number of collected shares and the number of collected
\* proofs both equal the party-set size, and the local party is the
\* aggregator; it returns false in every other state.
C1_ReadyIffFourConditions ==
    ret.op = "ready_for_complete_first_round" =>
        (ret.value <=> (InFirstRound /\ AllSharesIn /\ AllProofsIn /\ IsAggregator))

C1_Witness ==
    /\ ret.op = "ready_for_complete_first_round"
    /\ ret.value
    /\ Cardinality(parties) = MaxParty

\* C2: for every party count N >= 1 and every session id, each party that
\* constructs SignState::new with the same session id and party set gets the
\* same aggregator_party_id, and that id is a member of the party set.
C2_AggregatorAgreedAndMember ==
    (ret.op = "SignState::new" /\ constructed = "ok") =>
        /\ \A q \in PartyIDs :
              SignStateNew(q, parties, ret.args).aggregator_party_id
                  = aggregator_party_id
        /\ aggregator_party_id \in parties

\* C3: a round returns Output at most once: every complete_round call made
\* after a successful completion returns None and does not invoke the
\* threshold combination again.
C3_OutputAtMostOnce ==
    [][(outputs >= 1 /\ CompleteRound) =>
          (ret'.result = "None" /\ combinations' = combinations
             /\ outputs' = outputs)]_vars

C3_Witness ==
    /\ outputs = 1
    /\ ret.op = "complete_round"
    /\ ret.result = "None"

\* C4: after any complete_round call, whether it returned Output, returned
\* None or failed, the round is in the None state.
C4_RoundEmptiedWhateverTheOutcome ==
    ret.op = "complete_round" => round.tag = "None"

C4_Witness ==
    /\ ret.op = "complete_round"
    /\ ret.args = "FirstRound"
    /\ ret.result = "Err"
    /\ round.tag = "None"

\* C5: complete_round on a round in the None state returns
\* Ok(SignRoundCompletion::None), never an error, for every SignState, also
\* one whose messages were never set, and leaves the round in None.
C5_CompleteOnNoneIsNoOp ==
    (ret.op = "complete_round" /\ ret.args = "None") =>
        (ret.result = "None" /\ round.tag = "None")

C5_Witness ==
    /\ ret.op = "complete_round"
    /\ ret.args = "None"
    /\ ret.result = "None"
    /\ ~IsSome(messages)

\* C6: in every reachable SignState decryption_shares and
\* decryption_shares_proofs have the same PartyID keys, hence the same
\* number of entries.
C6_SharesAndProofsSameKeys ==
    /\ DOMAIN decryption_shares = DOMAIN decryption_shares_proofs
    /\ Cardinality(DOMAIN decryption_shares)
          = Cardinality(DOMAIN decryption_shares_proofs)

C6_Witness ==
    /\ Cardinality(DOMAIN decryption_shares) = MaxParty
    /\ IsSome(messages)

\* C7: if any collected proof or share is invalid, complete_round on a
\* FirstRound round returns an error and no signature list.
C7_InvalidProofFailsBatch ==
    (/\ ret.op = "complete_round"
     /\ ret.args = "FirstRound"
     /\ ~AllGenuine(decryption_shares, decryption_shares_proofs)) =>
        (ret.result = "Err" /\ ret.value = <<>>)

\* C8: SignRound::new with a message batch whose length differs from that of
\* the presignature batch or of the artifact batch returns an error: no
\* FirstRound state and no (shares, proofs) tuple.
C8_LengthMismatchFails ==
    (/\ ret.op = "SignRound::new"
     /\ (ret.args[1] # ret.args[2] \/ ret.args[1] # ret.args[3])) =>
        ret.result = "Err"

\* C9: whenever ready_for_complete_first_round is true, state.messages and
\* state.public_nonce_encrypted_partial_signature_and_proofs have been set,
\* so complete_round never hits an unset one.
C9_ReadyImpliesMessagesSet ==
    /\ ready_for_complete_first_round(round) =>
          /\ IsSome(messages)
          /\ IsSome(public_nonce_encrypted_partial_signature_and_proofs)
    /\ ret.op = "complete_round" => ret.result # "Panic"

\* C10 as claimed: whenever readiness is true, every PartyID of parties has
\* an entry in both maps, whatever PartyIDs insert_first_round was given.
C10_ReadyImpliesEveryPartyContributed ==
    ready_for_complete_first_round(round) =>
        /\ parties \subseteq DOMAIN decryption_shares
        /\ parties \subseteq DOMAIN decryption_shares_proofs

\* C10 as amended: whenever readiness is true, each map holds exactly N
\* distinct PartyID keys, and if insert_first_round was only ever given
\* PartyIDs of parties, every PartyID of parties has an entry in both maps.
C10_ReadyImpliesEveryPartyContributedAmongMembers ==
    ready_for_complete_first_round(round) =>
        /\ Cardinality(DOMAIN decryption_shares) = Cardinality(parties)
        /\ Cardinality(DOMAIN decryption_shares_proofs) = Cardinality(parties)
        /\ (/\ DOMAIN decryption_shares \subseteq parties
            /\ DOMAIN decryption_shares_proofs \subseteq parties) =>
               /\ parties \subseteq DOMAIN decryption_shares
               /\ parties \subseteq DOMAIN decryption_shares_proofs

C10_Witness ==
    /\ ready_for_complete_first_round(round)
    /\ Cardinality(parties) = MaxParty
    /\ DOMAIN decryption_shares = parties
    /\ DOMAIN decryption_shares_proofs = parties

\* C11: a caller that invokes complete_round after every insert_first_round
\* without checking readiness still obtains the final signatures once the
\* aggregator has collected the contributions of all N honest parties.
C11_SpeculativeCompletionStillYieldsSignatures ==
    (/\ ret.op = "complete_round"
     /\ IsAggregator
     /\ DOMAIN decryption_shares = parties
     /\ DOMAIN decryption_shares_proofs = parties) =>
        outputs >= 1

\* C12: in any sequence of operations the threshold combination inside
\* complete_round is executed only in a session whose party_id equals
\* aggregator_party_id: where the aggregator is one of the participants,
\* another participant never performs it.
C12_OnlyAggregatorCombines ==
    (/\ combinations >= 1
     /\ party_id \in parties
     /\ aggregator_party_id \in parties) => IsAggregator

\* C13: insert_first_round(party_id, (shares, proofs)) returns Ok for every
\* party_id and payload, valid or not; afterwards both maps hold exactly the
\* given shares and proofs under party_id, replacing any earlier entry, and
\* the entries of all other PartyIDs are as before.
C13_InsertIsLastWriteWins ==
    [][ret'.op = "insert_first_round" =>
          LET p == ret'.args[1]
              given == ret'.args[2]
          IN /\ ret'.result = "Ok"
             /\ DOMAIN decryption_shares' = DOMAIN decryption_shares \cup {p}
             /\ DOMAIN decryption_shares_proofs'
                   = DOMAIN decryption_shares_proofs \cup {p}
             /\ decryption_shares'[p] = given[1]
             /\ decryption_shares_proofs'[p] = given[2]
             /\ \A q \in DOMAIN decryption_shares \ {p} :
                   decryption_shares'[q] = decryption_shares[q]
             /\ \A q \in DOMAIN decryption_shares_proofs \ {p} :
                   decryption_shares_proofs'[q] = decryption_shares_proofs[q]]_vars

C13_Witness ==
    /\ ret.op = "insert_first_round"
    /\ ret.result = "Ok"
    /\ Cardinality(DOMAIN decryption_shares) = MaxParty
    /\ ~AllGenuine(<<>>, [q \in {ret.args[1]} |-> decryption_shares_proofs[q]])
    /\ \E q \in DOMAIN decryption_shares \ {ret.args[1]} :
          AllGenuine(<<>>, [x \in {q} |-> decryption_shares_proofs[x]])

\* C14: insert_first_round calls for different PartyIDs commute: from every
\* reachable pair of maps, inserting the contributions of two different
\* parties in either order gives the same maps, hence the same entry counts
\* that readiness reads.
C14_InsertsOfDifferentPartiesCommute ==
    ret.op \in {"insert_first_round", "SignState::new"} =>
        \A p \in PartyIDs, q \in PartyIDs :
            p # q =>
                \A m \in Payloads(p), n \in Payloads(q) :
                    /\ MapInsert(MapInsert(decryption_shares, p, m[1]), q, n[1])
                          = MapInsert(MapInsert(decryption_shares, q, n[1]), p, m[1])
                    /\ MapInsert(MapInsert(decryption_shares_proofs, p, m[2]), q, n[2])
                          = MapInsert(MapInsert(decryption_shares_proofs, q, n[2]), p, m[2])
                    /\ Cardinality(DOMAIN MapInsert(
                            MapInsert(decryption_shares, p, m[1]), q, n[1]))
                          = Cardinality(DOMAIN MapInsert(
                              MapInsert(decryption_shares, q, n[1]), p, m[1]))

C14_Witness ==
    /\ ret.op = "insert_first_round"
    /\ Cardinality(DOMAIN decryption_shares) = MaxParty
    /\ \E p \in DOMAIN decryption_shares_proofs, q \in DOMAIN decryption_shares_proofs :
          decryption_shares_proofs[p][1].genuine # decryption_shares_proofs[q][1].genuine

C16_OneActorAndShareAndProofPerMessage ==
    (ret.op = "SignRound::new" /\ ret.result = "Ok") =>
        /\ round.tag = "FirstRound"
        /\ Len(round.signature_threshold_decryption_round_parties) = ret.args[1]
        /\ Len(round.signature_partial_decryption_proof_verification_round_parties)
              = ret.args[1]
        /\ Len(ret.value[1]) = ret.args[1]
        /\ Len(ret.value[2]) = ret.args[1]
        /\ \A i \in 1..Len(ret.value[1]) :
              /\ ret.value[1][i] = Share(party_id, message_digest(<<i>>), [artifact |-> i])
              /\ ret.value[2][i] = Proof(party_id, message_digest(<<i>>), [artifact |-> i])

\* C17: messages and the artifacts are absent until the first set; set
\* stores exactly the given batches (Some, also for an empty batch),
\* replacing earlier values, and changes no other field of the SignState;
\* nothing else changes the two fields.
C17_SetRecordsBatchesAndNothingElse ==
    [][/\ ret.op = "SignState::new" =>
            (messages = None
               /\ public_nonce_encrypted_partial_signature_and_proofs = None)
       /\ ret'.op = "set" =>
            /\ messages' = Some(ret'.args[1])
            /\ public_nonce_encrypted_partial_signature_and_proofs'
                  = Some(ret'.args[2])
            /\ messages' # None
            /\ public_nonce_encrypted_partial_signature_and_proofs' # None
            /\ UNCHANGED <<decryption_shares, decryption_shares_proofs, parties,
                           party_id, aggregator_party_id>>
       /\ ret'.op # "set" =>
            UNCHANGED <<messages,
                        public_nonce_encrypted_partial_signature_and_proofs>>]_vars

C17_Witness ==
    /\ ret.op = "set"
    /\ messages = Some(<<>>)
    /\ messages # None
    /\ Cardinality(DOMAIN decryption_shares) = MaxParty

\* C18: SignState::new has no failure mode: for every party set, of any
\* size, and every session id it returns a state with empty maps, unset
\* messages and artifacts and the aggregator id computed from the session id.
C18_NewNeverFails ==
    ret.op = "SignState::new" =>
        /\ constructed = "ok"
        /\ decryption_shares = <<>>
        /\ decryption_shares_proofs = <<>>
        /\ messages = None
        /\ public_nonce_encrypted_partial_signature_and_proofs = None
        /\ aggregator_party_id = AggregatorPartyId(ret.args, parties)

\* C19 as claimed: once readiness is true it stays true over every further
\* set call and every further insert_first_round call.
C19_ReadinessStable ==
    [][(/\ ready_for_complete_first_round(round)
        /\ ret'.op \in {"set", "insert_first_round"}) =>
           ready_for_complete_first_round(round)']_vars

\* C19 as amended: once readiness is true it stays true over every further
\* set call and every further insert_first_round call for a PartyID that
\* already has an entry; an insert for a PartyID without an entry makes it
\* false.
C19_ReadinessStableOverKnownParties ==
    [][ready_for_complete_first_round(round) =>
          /\ (ret'.op = "set"
               \/ (ret'.op = "insert_first_round"
                     /\ ret'.args[1] \in DOMAIN decryption_shares)) =>
                 ready_for_complete_first_round(round)'
          /\ (ret'.op = "insert_first_round"
                /\ ret'.args[1] \notin DOMAIN decryption_shares) =>
                 ~ready_for_complete_first_round(round)']_vars

C19_Witness ==
    /\ ready_for_complete_first_round(round)
    /\ ret.op = "set"
    /\ Cardinality(parties) = MaxParty

\* C20: after SuiClientConfig::new and any add_env calls no two entries of
\* envs share an alias; add_env with an alias already present leaves envs as
\* it is, add_env with a new alias appends exactly that entry at the end, and
\* keystore, active_env and active_address never change.
C20_AddEnvKeepsAliasesUnique ==
    [][ret'.op = "add_env" =>
          LET env == ret'.args
              present == \E i \in 1..Len(envs) : envs[i].alias = env.alias
          IN /\ present => envs' = envs
             /\ ~present => (/\ Len(envs') = Len(envs) + 1
                             /\ SubSeq(envs', 1, Len(envs)) = envs
                             /\ envs'[Len(envs')] = env)
             /\ \A i \in 1..Len(envs'), j \in 1..Len(envs') :
                   envs'[i].alias = envs'[j].alias => i = j
             /\ keystore' = keystore
             /\ active_env' = active_env
             /\ active_address' = active_address]_vars

C20_Witness ==
    /\ ret.op = "add_env"
    /\ Len(envs) = MaxAliases
    /\ \E i \in 1..Len(envs) :
          envs[i].alias = ret.args.alias /\ envs[i] # ret.args

=============================================================================
